---- MODULE Spec2Model ----
(***************************************************************************)
(* Model of the command executor (RealCommandExecutor) and of the phased   *)
(* project-setup orchestrator (EnhancedIntelligentCLIManager) of Herbie,   *)
(* src/ultimateEnhancedHerbie.py, with the dependency checker and the      *)
(* framework registry of src/frameworkManager.py, and of the phase         *)
(* functions of src/herbie.py and src/src/github_client.py that change     *)
(* the working directory.                                                  *)
(*                                                                         *)
(* Optional values (Python None) are strings equal to "None" where the     *)
(* value is a string, and the empty sequence <<>> where it is a record or  *)
(* a string held as the sequence of its characters.                        *)
(***************************************************************************)
EXTENDS Integers, Sequences, FiniteSets, TLC

VARIABLES
    cwd,                \* process-wide working directory (os.getcwd / os.chdir)
    fs,                 \* set of directories that exist on disk
    clock,              \* time.time(), taken as non-decreasing
    execution_history,  \* RealCommandExecutor.execution_history
    last_call,          \* observation of the last execute_command call
    pc,                 \* position of execute_framework_setup_real
    framework,          \* argument of execute_framework_setup_real
    github_token,       \* EnhancedIntelligentCLIManager.github_token is set
    context,            \* the ProjectExecutionContext of the run
    start_time,         \* start_time of execute_framework_setup_real
    outcome,            \* "running", "returned" or "raised"
    exc_text,           \* text of the exception that escaped, if any
    setup_idx,          \* loop index over framework_info["setup_commands"]
    upload_idx,         \* loop index over the git commands of the upload
    username,           \* username obtained by _get_github_username
    api_log,            \* requests sent to the hosting API, in order
    phases,             \* phases entered by the run, in order
    os_type,            \* IntelligentCLIManager.os_type (platform.system().lower())
    project_created,    \* value returned by _execute_project_creation
    github_created,     \* value returned by _execute_github_setup
    upload_done,        \* value returned by _execute_code_upload
    call_args,          \* arguments of a function called on its own
    call_result,        \* what that call returned, <<>> before it
    pending_project,    \* HerbieAgent.pending_project, None is <<>>
    projects_made,      \* number of projects HerbieAgent has proposed
    repo_requests,      \* ids of the projects a repository was requested for
    last_response       \* handler and intent of the last answer of chat()

vars == <<cwd, fs, clock, execution_history, last_call, pc, framework,
          github_token, context, start_time, outcome, exc_text, setup_idx,
          upload_idx, username, api_log, phases, os_type, project_created,
          github_created, upload_done, call_args, call_result,
          pending_project, projects_made, repo_requests, last_response>>

execVars == <<cwd, fs, clock, execution_history, last_call>>

orchVars == <<pc, framework, github_token, context, start_time, outcome,
              exc_text, setup_idx, upload_idx, username, api_log, phases,
              os_type, project_created, github_created, upload_done>>

callVars == <<call_args, call_result>>

agentVars == <<pending_project, projects_made, repo_requests, last_response>>

----------------------------------------------------------------------------
(* Bounds of the model *)

\* number of execute_command calls made directly on the executor
MaxCalls == 2

\* largest advance of the clock during one command
MaxDelta == 1

----------------------------------------------------------------------------
(* The file system and the process *)

None == "None"

\* the directory the process is started in
OrigDir == "/home"

\* os.path.abspath(project_name) for project_name = "proj"
ProjDir == "/home/proj"

OtherDir == "/srv/other"

\* a path that exists and is a regular file
FilePath == "/home/file"

MissingDir == "/nonexistent"

ProjectName == "proj"

Dirs == {OrigDir, ProjDir, OtherDir}

\* removing a directory removes what is below it
Below(d) == IF d = OrigDir THEN {OrigDir, ProjDir} ELSE {d}

\* os.path.exists
PathExists(p, disk) == p \in disk \/ p = FilePath

----------------------------------------------------------------------------
(* RealCommandExecutor *)

\* exit_code of the record built on subprocess.TimeoutExpired
TimeoutExitCode == -1

\* the exception branch reusing the sentinel of the timeout branch
ExceptionExitCodeAsTimeout == TimeoutExitCode

\* exit_code of the record built on any other exception
ExceptionExitCode == -999

\* ExecutionResult: the record of one command
ExecutionResult(success, command, error, execution_time, exit_code, working_directory) ==
    [success |-> success, command |-> command, error |-> error,
     execution_time |-> execution_time, exit_code |-> exit_code,
     working_directory |-> working_directory]

\* the operands of the subtraction swapped
ElapsedTimeSwapped(start, now) == start - now

\* time.time() - start_time
ElapsedTime(start, now) == now - start

\* a finally clause that leaves the process where the command ran
RestoreDirSkipped(original_dir, current) == current

\* the finally clause of execute_command: os.chdir(original_dir)
RestoreDir(original_dir, current) == original_dir

\* What the environment does to one spawned command:
\*   kind   "completed" (the process ended with exit code rc),
\*          "timeout" (subprocess.TimeoutExpired) or
\*          "spawn_error" (subprocess.run raised another exception)
\*   rc     the exit code of a completed process
\*   stderr the captured error output, or the text of the exception
\*   dt     the time the call took
\*   rm, mk the directories the command removed and created
EnvOf(kind, rc, stderr, dt, rm, mk) ==
    [kind |-> kind, rc |-> rc, stderr |-> stderr, dt |-> dt, rm |-> rm, mk |-> mk]

\* execute_command(command, timeout, working_dir) run from the process state
\* (dir0, disk0, now0) with history hist0, under the environment env.
\* The result gives the state after the call and whether it returned a
\* record (raised = FALSE, result = <<record>>) or let an exception escape.
ExecuteCommand(command, timeout, working_dir, env, dir0, disk0, now0, hist0) ==
    IF dir0 \notin disk0
    THEN \* os.getcwd() raises before the try block is entered
         [raised |-> TRUE, exc |-> "FileNotFoundError", result |-> <<>>,
          cwd |-> dir0, fs |-> disk0, clock |-> now0, history |-> hist0,
          path |-> "getcwd", cwd_before |-> dir0, exc_str |-> None]
    ELSE
    LET start_time_ == now0
        original_dir == dir0
        wants_chdir == working_dir # None /\ PathExists(working_dir, disk0)
        chdir_raises == wants_chdir /\ working_dir \notin disk0
        dir1 == IF wants_chdir /\ ~chdir_raises THEN working_dir ELSE dir0
        \* subprocess.run(cwd=working_dir) raises when working_dir is no directory
        cwd_raises == working_dir # None /\ working_dir \notin disk0
        path == IF chdir_raises \/ cwd_raises \/ env.kind = "spawn_error" THEN "exception"
                ELSE IF env.kind = "timeout" THEN "timeout"
                ELSE "completed"
        exc_str == IF chdir_raises THEN "[Errno 20] Not a directory"
                   ELSE IF cwd_raises THEN "[Errno 2] No such file or directory"
                   ELSE env.stderr
        ran == path # "exception"
        removed == UNION {Below(d) : d \in env.rm}
        disk1 == IF ran THEN (disk0 \ removed) \cup env.mk ELSE disk0
        now1 == now0 + env.dt
        execution_time == ElapsedTime(start_time_, now1)
        wd == IF working_dir # None THEN working_dir ELSE original_dir
        exec_result ==
            IF path = "completed"
            THEN ExecutionResult(env.rc = 0, command, env.stderr, execution_time, env.rc, wd)
            ELSE IF path = "timeout"
            THEN ExecutionResult(FALSE, command, "Timeout", execution_time, TimeoutExitCode, wd)
            ELSE ExecutionResult(FALSE, command, exc_str, execution_time, ExceptionExitCode, wd)
        hist1 == Append(hist0, exec_result)
        target == RestoreDir(original_dir, dir1)
    IN  IF target \notin disk1
        THEN \* os.chdir(original_dir) raises in the finally clause
             [raised |-> TRUE, exc |-> "FileNotFoundError", result |-> <<>>,
              cwd |-> dir1, fs |-> disk1, clock |-> now1, history |-> hist1,
              path |-> path, cwd_before |-> dir0, exc_str |-> exc_str]
        ELSE [raised |-> FALSE, exc |-> None, result |-> <<exec_result>>,
              cwd |-> target, fs |-> disk1, clock |-> now1, history |-> hist1,
              path |-> path, cwd_before |-> dir0, exc_str |-> exc_str]

\* what a caller can observe of one call
CallObservation(command, working_dir, env, r) ==
    [called |-> TRUE, command |-> command, working_dir |-> working_dir, kind |-> env.kind,
     rc |-> env.rc, exc_str |-> r.exc_str, path |-> r.path,
     raised |-> r.raised, result |-> r.result, cwd_before |-> r.cwd_before]

NoCall ==
    [called |-> FALSE, command |-> <<>>, working_dir |-> None, kind |-> None, rc |-> 0,
     exc_str |-> None, path |-> None, raised |-> FALSE, result |-> <<>>,
     cwd_before |-> None]

\* get_execution_summary
RECURSIVE SumTimes(_)
SumTimes(h) == IF h = <<>> THEN 0 ELSE h[1].execution_time + SumTimes(Tail(h))

\* 'n / d if d > 0 else 0': the quotient is the pair <<n, d>>, 0 is <<0, 1>>
QuotientOrZero(n, d) == IF d > 0 THEN <<n, d>> ELSE <<0, 1>>

\* get_execution_summary on the history h
get_execution_summary(h) ==
    LET total_commands == Len(h)
        successful_commands == Cardinality({i \in 1..Len(h) : h[i].success})
        total_time == SumTimes(h)
    IN  [total_commands |-> total_commands,
         successful_commands |-> successful_commands,
         failed_commands |-> total_commands - successful_commands,
         success_rate |-> QuotientOrZero(successful_commands, total_commands),
         total_execution_time |-> total_time,
         average_command_time |-> QuotientOrZero(total_time, total_commands),
         execution_history |-> h]

----------------------------------------------------------------------------
(* HerbieAgent before its first chat() *)

\* the answer of chat() before any turn
NoResponse == [handler |-> None, intent |-> None]

\* HerbieAgent.__init__
AgentIdle ==
    /\ pending_project = <<>>
    /\ projects_made = 0
    /\ repo_requests = <<>>
    /\ last_response = NoResponse

----------------------------------------------------------------------------
(* The executor called directly with arbitrary commands *)

\* a command is the sequence of its words
Commands == {<<"true">>, <<"sleep", "600">>}

WorkingDirs == {None, OtherDir, MissingDir, FilePath}

ExecEnvs ==
    { EnvOf(k.kind, k.rc, k.stderr, dt, rm, {}) :
        k \in { [kind |-> "completed", rc |-> 0, stderr |-> ""],
                [kind |-> "completed", rc |-> 1, stderr |-> "stderr"],
                [kind |-> "timeout", rc |-> 0, stderr |-> ""],
                [kind |-> "spawn_error", rc |-> 0, stderr |-> "[Errno 12] Cannot allocate memory"] },
        dt \in 0..MaxDelta,
        rm \in {{}, {OrigDir}} }

IdleContext ==
    [local_path |-> None, github_url |-> None, execution_log |-> <<>>,
     dependencies_verified |-> <<>>, setup_result |-> <<>>,
     total_execution_time |-> 0, success |-> FALSE]

InitExec ==
    /\ cwd = OrigDir
    /\ fs = {OrigDir, OtherDir}
    /\ clock = 0
    /\ execution_history = <<>>
    /\ last_call = NoCall
    /\ pc = "idle"
    /\ framework = None
    /\ github_token = FALSE
    /\ context = IdleContext
    /\ start_time = 0
    /\ outcome = "idle"
    /\ exc_text = None
    /\ setup_idx = 0
    /\ upload_idx = 0
    /\ username = None
    /\ api_log = <<>>
    /\ phases = <<>>
    /\ os_type = "linux"
    /\ project_created = "unset"
    /\ github_created = "unset"
    /\ upload_done = "unset"
    /\ call_args = <<>>
    /\ call_result = <<>>
    /\ AgentIdle

\* one call of RealCommandExecutor.execute_command
ExecuteCommandCall ==
    /\ UNCHANGED <<callVars, agentVars>>
    /\ pc = "idle"
    /\ Len(execution_history) < MaxCalls
    /\ \E command \in Commands, working_dir \in WorkingDirs, env \in ExecEnvs :
         LET r == ExecuteCommand(command, 300, working_dir, env, cwd, fs, clock,
                                 execution_history)
         IN  /\ cwd' = r.cwd
             /\ fs' = r.fs
             /\ clock' = r.clock
             /\ execution_history' = r.history
             /\ last_call' = CallObservation(command, working_dir, env, r)
    /\ UNCHANGED orchVars

NextExec == ExecuteCommandCall

SpecExec == InitExec /\ [][NextExec]_vars

----------------------------------------------------------------------------
(* Strings the version functions work on: a string is the sequence of its
   characters *)

Digits == <<"0", "1", "2", "3", "4", "5", "6", "7", "8", "9">>

IsDigit(c) == \E d \in 1..10 : Digits[d] = c

DigitValue(c) == (CHOOSE d \in 1..10 : Digits[d] = c) - 1

\* str(n) of a non-negative integer
RECURSIVE Str(_)
Str(n) ==
    IF n < 10 THEN <<Digits[n + 1]>>
    ELSE Str(n \div 10) \o <<Digits[(n % 10) + 1]>>

\* ".".join(str(x) for x in parts)
RECURSIVE VersionString(_)
VersionString(parts) ==
    IF parts = <<>> THEN <<>>
    ELSE IF Len(parts) = 1 THEN Str(parts[1])
    ELSE Str(parts[1]) \o <<".">> \o VersionString(Tail(parts))

\* s.replace(old, ''): every occurrence of old, left to right, is removed
RECURSIVE Remove(_, _)
Remove(s, old) ==
    IF Len(s) < Len(old) THEN s
    ELSE IF SubSeq(s, 1, Len(old)) = old
    THEN Remove(SubSeq(s, Len(old) + 1, Len(s)), old)
    ELSE <<s[1]>> \o Remove(Tail(s), old)

\* s.strip() on blanks
RECURSIVE Strip(_)
Strip(s) ==
    IF s = <<>> THEN s
    ELSE IF s[1] = " " THEN Strip(Tail(s))
    ELSE IF s[Len(s)] = " " THEN Strip(SubSeq(s, 1, Len(s) - 1))
    ELSE s

\* s.split('.')
RECURSIVE Split(_)
Split(s) ==
    LET dots == {i \in 1..Len(s) : s[i] = "."}
    IN  IF dots = {} THEN <<s>>
        ELSE LET i == CHOOSE k \in dots : \A m \in dots : k <= m
             IN  <<SubSeq(s, 1, i - 1)>> \o Split(SubSeq(s, i + 1, Len(s)))

\* int(x) raises ValueError unless x, blanks stripped, is a non-empty run
\* of digits (signs and underscores do not occur in the strings modelled)
IntRaises(x) ==
    LET t == Strip(x)
    IN  t = <<>> \/ \E i \in 1..Len(t) : ~IsDigit(t[i])

\* int(x) of a run of digits
RECURSIVE IntOfDigits(_)
IntOfDigits(t) ==
    IF t = <<>> THEN 0
    ELSE IntOfDigits(SubSeq(t, 1, Len(t) - 1)) * 10 + DigitValue(t[Len(t)])

int(x) == IntOfDigits(Strip(x))

----------------------------------------------------------------------------
(* The framework registry and the dependency checker (frameworkManager.py) *)

OsTypes == {"linux", "windows"}

\* a dependency descriptor of the registry: its requirement is the string
\* ">=a.b.c"; the install command of an OS is represented by the triple
\* <<"install", name, os>>
Dependency(name, check_command, required) ==
    [name |-> name, check_command |-> check_command,
     required_version |-> <<">", "=">> \o VersionString(required),
     install_commands |->
        [os \in {"windows", "linux", "darwin"} |-> <<"install", name, os>>]]

\* EnhancedFrameworkDatabase.FRAMEWORKS; a command template is the sequence
\* of its words
FRAMEWORKS ==
  [
    react |->
      [primary_commands |-> << <<"npx", "create-react-app", "{project_name}">>,
                             <<"npm", "create", "vite@latest", "{project_name}", "--", "--template", "react">> >>,
       dependencies |-> <<
          Dependency("node", <<"node", "--version">>, <<14, 0, 0>>),
          Dependency("npm", <<"npm", "--version">>, <<6, 0, 0>>) >>,
       setup_commands |-> << <<"cd", "{project_name}">>, <<"npm", "install">> >>],
    vue |->
      [primary_commands |-> << <<"npm", "create", "vue@latest", "{project_name}">>,
                             <<"vue", "create", "{project_name}">> >>,
       dependencies |-> <<
          Dependency("node", <<"node", "--version">>, <<16, 0, 0>>),
          Dependency("npm", <<"npm", "--version">>, <<7, 0, 0>>) >>,
       setup_commands |-> << <<"cd", "{project_name}">>, <<"npm", "install">>, <<"npm", "run", "dev">> >>],
    angular |->
      [primary_commands |-> << <<"ng", "new", "{project_name}", "--routing", "--style=css">> >>,
       dependencies |-> <<
          Dependency("node", <<"node", "--version">>, <<18, 0, 0>>),
          Dependency("angular-cli", <<"ng", "version">>, <<15, 0, 0>>) >>,
       setup_commands |-> << <<"cd", "{project_name}">>, <<"ng", "serve">> >>],
    nextjs |->
      [primary_commands |-> << <<"npx", "create-next-app@latest", "{project_name}">>,
                             <<"npm", "create", "next-app@latest", "{project_name}">> >>,
       dependencies |-> <<
          Dependency("node", <<"node", "--version">>, <<18, 0, 0>>),
          Dependency("npm", <<"npm", "--version">>, <<8, 0, 0>>) >>,
       setup_commands |-> << <<"cd", "{project_name}">>, <<"npm", "run", "dev">> >>],
    django |->
      [primary_commands |-> << <<"django-admin", "startproject", "{project_name}">>,
                             <<"python", "-m", "django", "startproject", "{project_name}">> >>,
       dependencies |-> <<
          Dependency("python", <<"python", "--version">>, <<3, 8, 0>>),
          Dependency("pip", <<"pip", "--version">>, <<20, 0, 0>>),
          Dependency("django", <<"django-admin", "--version">>, <<4, 0, 0>>) >>,
       setup_commands |-> << <<"cd", "{project_name}">>, <<"python", "manage.py", "migrate">>, <<"python", "manage.py", "runserver">> >>],
    fastapi |->
      [primary_commands |-> << <<"mkdir", "{project_name}", "&&", "cd", "{project_name}">>,
                             <<"fastapi", "dev", "main.py">> >>,
       dependencies |-> <<
          Dependency("python", <<"python", "--version">>, <<3, 8, 0>>),
          Dependency("pip", <<"pip", "--version">>, <<20, 0, 0>>),
          Dependency("fastapi", <<"python", "-c", "\"import", "fastapi;", "print(fastapi.__version__)\"">>, <<0, 100, 0>>) >>,
       setup_commands |-> << <<"cd", "{project_name}">>, <<"pip", "install", "fastapi[all]">>, <<"fastapi", "dev", "main.py">> >>],
    rails |->
      [primary_commands |-> << <<"rails", "new", "{project_name}">>,
                             <<"gem", "install", "rails", "&&", "rails", "new", "{project_name}">> >>,
       dependencies |-> <<
          Dependency("ruby", <<"ruby", "--version">>, <<3, 0, 0>>),
          Dependency("gem", <<"gem", "--version">>, <<3, 0, 0>>),
          Dependency("rails", <<"rails", "--version">>, <<7, 0, 0>>) >>,
       setup_commands |-> << <<"cd", "{project_name}">>, <<"bundle", "install">>, <<"rails", "server">> >>],
    flutter |->
      [primary_commands |-> << <<"flutter", "create", "{project_name}">>,
                             <<"flutter", "create", "--platforms=android,ios", "{project_name}">> >>,
       dependencies |-> <<
          Dependency("flutter", <<"flutter", "--version">>, <<3, 0, 0>>),
          Dependency("dart", <<"dart", "--version">>, <<2, 17, 0>>) >>,
       setup_commands |-> << <<"cd", "{project_name}">>, <<"flutter", "pub", "get">>, <<"flutter", "run">> >>]
  ]

FrameworkNames == DOMAIN FRAMEWORKS

\* str.lower on the framework ids given to the orchestrator
Lower(s) == IF s = "React" THEN "react" ELSE s

\* get_framework_info: None (<<>>) for an id that is not in the registry
get_framework_info(f) ==
    IF Lower(f) \in DOMAIN FRAMEWORKS THEN <<FRAMEWORKS[Lower(f)]>> ELSE <<>>

\* template.format(project_name=...)
Format(template, project_name) ==
    [i \in 1..Len(template) |->
        IF template[i] = "{project_name}" THEN project_name ELSE template[i]]

\* setup_cmd.startswith("cd ")
StartsWithCd(template) == Len(template) >= 2 /\ template[1] = "cd"

\* list comparison of Python, a >= b: the first differing element decides,
\* and a list that is a proper prefix of the other is the smaller one
RECURSIVE GeqLex(_, _)
GeqLex(a, b) ==
    IF b = <<>> THEN TRUE
    ELSE IF a = <<>> THEN FALSE
    ELSE IF a[1] > b[1] THEN TRUE
    ELSE IF a[1] < b[1] THEN FALSE
    ELSE GeqLex(Tail(a), Tail(b))

\* the zero padding left out
PadZerosSkipped(parts, max_len) == parts

\* parts.extend([0] * (max_len - len(parts)))
PadZeros(parts, max_len) ==
    parts \o [i \in 1..(max_len - Len(parts)) |-> 0]

\* _compare_versions on the two strings; True when int() raises
compare_versions(current, required) ==
    LET required_clean ==
            Strip(Remove(Remove(Remove(required, <<">", "=">>), <<">">>), <<"=">>))
        current_split == Split(current)
        required_split == Split(required_clean)
    IN  IF \/ \E i \in 1..Len(current_split) : IntRaises(current_split[i])
           \/ \E i \in 1..Len(required_split) : IntRaises(required_split[i])
        THEN TRUE
        ELSE LET current_parts == [i \in 1..Len(current_split) |->
                                      int(current_split[i])]
                 required_parts == [i \in 1..Len(required_split) |->
                                       int(required_split[i])]
                 max_len == IF Len(current_parts) >= Len(required_parts)
                            THEN Len(current_parts) ELSE Len(required_parts)
             IN  GeqLex(PadZeros(current_parts, max_len),
                        PadZeros(required_parts, max_len))

\* re.search of (\d+\.\d+\.\d+) (n = 3) or (\d+\.\d+) (n = 2) anchored at
\* position i of output: the position of the last character matched, or 0.
\* Each \d+ is greedy and is followed by a character that is not a digit,
\* so it takes the whole run of digits.
DigitRunEnd(output, i) ==
    LET ends == {j \in i..Len(output) : \A k \in i..j : IsDigit(output[k])}
    IN  IF ends = {} THEN i - 1
        ELSE CHOOSE j \in ends : \A m \in ends : m <= j

MatchVersionAt(output, i, n) ==
    LET e1 == DigitRunEnd(output, i)
        e2 == DigitRunEnd(output, e1 + 2)
        e3 == DigitRunEnd(output, e2 + 2)
        dot(k) == k <= Len(output) /\ output[k] = "."
    IN  IF e1 < i \/ ~dot(e1 + 1) THEN 0
        ELSE IF e2 < e1 + 2 THEN 0
        ELSE IF n = 2 THEN e2
        ELSE IF ~dot(e2 + 1) \/ e3 < e2 + 2 THEN 0
        ELSE e3

\* re.search(r'v?(...)', output, re.IGNORECASE).group(1): the leftmost
\* match, <<>> when there is none
SearchVersion(output, n) ==
    LET group(i) == IF output[i] \in {"v", "V"} THEN i + 1 ELSE i
        starts == {i \in 1..Len(output) : MatchVersionAt(output, group(i), n) > 0}
    IN  IF starts = {} THEN <<>>
        ELSE LET i == CHOOSE k \in starts : \A m \in starts : k <= m
             IN  SubSeq(output, group(i), MatchVersionAt(output, group(i), n))

\* _extract_version: the first pattern of the list that matches; the second
\* and third pattern match only where the first does, the fifth only where
\* the fourth does. None is <<>>.
extract_version(output) ==
    IF SearchVersion(output, 3) # <<>> THEN SearchVersion(output, 3)
    ELSE SearchVersion(output, 2)

DependencyInfo(name, status, current_version, required_version, install_command) ==
    [name |-> name, status |-> status, current_version |-> current_version,
     required_version |-> required_version, install_command |-> install_command]

\* dependency_info["install_commands"].get(self.os_type)
InstallCommandFor(dep, os) ==
    IF os \in DOMAIN dep.install_commands THEN dep.install_commands[os] ELSE <<>>

\* What the environment answers to one check command: kind is "exception"
\* or "timeout" (subprocess.run raised), "nonzero" or "zero" (exit code);
\* stdout is the output of the command. The orchestrator's runs see one
\* version older and one newer than every requirement of the registry.
DepEnvs ==
    {[kind |-> "exception", stdout |-> <<>>],
     [kind |-> "nonzero", stdout |-> <<>>],
     [kind |-> "zero", stdout |-> <<"v", "0", ".", "0", ".", "1">>],
     [kind |-> "zero", stdout |-> <<"9", "9", ".", "0", ".", "0">>]}

\* the outcomes of subprocess.run that are exceptions
RaisingKinds == {"exception", "timeout"}

\* the status of the zero-exit branch with the version test left out
VersionStatusUnchecked(current_version, required_version) == "available"

\* the status of the zero-exit branch
VersionStatus(current_version, required_version) ==
    IF required_version # <<>> /\ current_version # <<>>
    THEN IF compare_versions(current_version, required_version)
         THEN "available" ELSE "outdated"
    ELSE "available"

\* the status of the non-zero branch taken for Available
NonZeroStatusAvailable == "available"

\* the status of the non-zero branch
NonZeroStatus == "missing"

\* check_dependency; an absent version or requirement (None) is <<>>
check_dependency(dep, env, os) ==
    IF env.kind \in RaisingKinds
    THEN DependencyInfo(dep.name, "unknown", <<>>, <<>>, InstallCommandFor(dep, os))
    ELSE IF env.kind = "nonzero"
    THEN DependencyInfo(dep.name, NonZeroStatus, <<>>, <<>>,
                        InstallCommandFor(dep, os))
    ELSE LET current_version == extract_version(env.stdout)
             required_version == dep.required_version
         IN  DependencyInfo(dep.name,
                            VersionStatus(current_version, required_version),
                            current_version, required_version,
                            InstallCommandFor(dep, os))

\* check_framework_dependencies, envs[i] answering the i-th check command
check_framework_dependencies(f, envs, os) ==
    LET framework_info == get_framework_info(f)
    IN  IF framework_info = <<>> THEN <<>>
        ELSE LET deps == framework_info[1].dependencies
             IN  [i \in 1..Len(deps) |-> check_dependency(deps[i], envs[i], os)]

\* number of dependencies whose check command is run for framework f
NumDeps(f) ==
    IF get_framework_info(f) = <<>> THEN 0
    ELSE Len(get_framework_info(f)[1].dependencies)

----------------------------------------------------------------------------
(* EnhancedIntelligentCLIManager: the orchestrator *)

\* the fields of the dataclass FrameworkSetupResult
FrameworkSetupResultFields ==
    {"success", "message", "dependencies", "setup_commands", "next_steps",
     "troubleshooting"}

\* the fields without a default value
FrameworkSetupResultRequired ==
    {"success", "message", "dependencies", "setup_commands", "next_steps"}

\* FrameworkSetupResult(**kwargs): the generated __init__ raises TypeError on
\* a keyword that is not a field, or when a required field is not given
FrameworkSetupResult(kwargs) ==
    IF /\ DOMAIN kwargs \subseteq FrameworkSetupResultFields
       /\ FrameworkSetupResultRequired \subseteq DOMAIN kwargs
    THEN [raised |-> FALSE, value |-> <<kwargs>>, exc |-> None]
    ELSE [raised |-> TRUE, value |-> <<>>,
          exc |-> "TypeError: __init__() got an unexpected keyword argument"]

\* the filter of missing_deps taking Unknown for Missing
IsMissingOrUnknownDep(dep) == dep.status \in {"missing", "unknown"}

\* dep.status == DependencyStatus.MISSING, the filter of missing_deps
IsMissingDep(dep) == dep.status = "missing"

\* the except clause of execute_framework_setup_real
ExceptHandler(ctx, f, e) ==
    LET r == FrameworkSetupResult(
                [success |-> FALSE, project_name |-> ProjectName, framework |-> f,
                 dependencies |-> ctx.dependencies_verified,
                 setup_commands |-> <<>>, next_steps |-> <<>>,
                 message |-> <<"Error inesperado", e>>])
    IN  IF r.raised
        THEN [outcome |-> "raised", context |-> ctx, exc_text |-> r.exc]
        ELSE [outcome |-> "returned",
              context |-> [ctx EXCEPT !.setup_result = r.value],
              exc_text |-> None]

\* context.setup_result = FrameworkSetupResult(...); return context
\* inside the try block
ReturnWith(ctx, f, kwargs) ==
    LET r == FrameworkSetupResult(kwargs)
    IN  IF r.raised
        THEN ExceptHandler(ctx, f, r.exc)
        ELSE [outcome |-> "returned",
              context |-> [ctx EXCEPT !.setup_result = r.value],
              exc_text |-> None]

\* the outcome built when dependencies are missing
MissingDepsResult(ctx, f, missing_deps) ==
    [success |-> FALSE, project_name |-> ProjectName, framework |-> f,
     dependencies |-> ctx.dependencies_verified, setup_commands |-> <<>>,
     next_steps |-> [i \in 1..Len(missing_deps) |->
                        <<"Instalar", missing_deps[i].name,
                          missing_deps[i].install_command>>],
     message |-> <<"Dependencias faltantes">> \o
                 [i \in 1..Len(missing_deps) |-> missing_deps[i].name]]

\* the outcome built when _execute_project_creation returned False
CreationFailedResult(ctx, f) ==
    [success |-> FALSE, project_name |-> ProjectName, framework |-> f,
     dependencies |-> ctx.dependencies_verified, setup_commands |-> <<>>,
     next_steps |-> <<>>, message |-> <<"Error creando proyecto local">>]

\* the next steps of _generate_final_setup_result
NextSteps(ctx, f) ==
    (IF ctx.local_path # None
     THEN << <<"1. Navegar al proyecto: cd", ProjectName>> >> ELSE <<>>)
    \o (IF get_framework_info(f) = <<>> THEN <<>>
        ELSE IF f = "react"
        THEN << <<"2. Iniciar servidor: npm start">>,
                <<"3. Abrir: http://localhost:3000">>,
                <<"4. Editar: src/App.js">> >>
        ELSE IF f = "vue"
        THEN << <<"2. Iniciar servidor: npm run dev">>,
                <<"3. Abrir: http://localhost:5173">>,
                <<"4. Editar: src/App.vue">> >>
        ELSE IF f = "django"
        THEN << <<"2. Iniciar servidor: python manage.py runserver">>,
                <<"3. Abrir: http://localhost:8000">>,
                <<"4. Crear app: python manage.py startapp myapp">> >>
        ELSE <<>>)
    \o (IF ctx.github_url # None
        THEN << <<"5. Ver repositorio:", ctx.github_url>> >> ELSE <<>>)

\* the keyword arguments _generate_final_setup_result builds the outcome from
generate_final_setup_result(ctx, f) ==
    [success |-> ctx.success, project_name |-> ProjectName, framework |-> f,
     dependencies |-> ctx.dependencies_verified,
     setup_commands |-> [i \in 1..Len(ctx.execution_log) |->
                            ctx.execution_log[i].command],
     next_steps |-> NextSteps(ctx, f),
     message |-> <<"Proyecto creado exitosamente", ctx.local_path,
                   ctx.github_url, ctx.total_execution_time>>]

\* the removal command of an existing project directory
RemoveCommand(os) ==
    IF os # "windows" THEN <<"rm", "-rf", ProjectName>>
    ELSE <<"rmdir", "/s", "/q", ProjectName>>

\* the git commands of _execute_code_upload
UploadCommands(user) ==
    << <<"git", "init">>,
       <<"git", "config", "user.name", user>>,
       <<"git", "config", "user.email", user, "@users.noreply.github.com">>,
       <<"git", "remote", "add", "origin", "https://", "token", "@github.com/",
         user, ProjectName, ".git">>,
       <<"git", "add", ".">>,
       <<"git", "commit", "-m", "Initial commit created by Enhanced Herbie">>,
       <<"git", "branch", "-M", "main">>,
       <<"git", "push", "-u", "origin", "main">> >>

\* html_url of the repository the hosting API created
RepoUrl == "https://github.com/octocat/proj"

\* the working directory the post-scaffold commands are given
SetupWorkingDir(project_path) == project_path

\* a loop that gives up at the first failing setup command
SetupLoopStopsOnFailure(result) == ~result.success

\* whether the loop over the setup commands stops after a command: a failure
\* is only logged
SetupLoopStops(result) == FALSE

\* the total time left at its default
TotalExecutionTimeUnset(now, start) == 0

\* context.total_execution_time = time.time() - start_time
TotalExecutionTime(now, start) == now - start

\* the scaffold test without the check that the directory exists
ScaffoldFailedUnverified(result, disk) == ~result.success

\* 'if not result.success: return False' and 'if not
\* os.path.exists(project_path): return False' after the scaffold command
ScaffoldFailed(result, disk) ==
    ~result.success \/ ~PathExists(ProjDir, disk)

\* the username test left out
UsernameMissingIgnored(login) == FALSE

\* 'if not username: return False' of _execute_code_upload
UsernameMissing(login) == login = None

\* the git loop going on after a failed command
UploadLoopGoesOn(result) == FALSE

\* 'if not result.success: return False' in the loop over the git commands
UploadLoopStops(result) == ~result.success

\* what the environment may do to a command of the orchestrator; effects
\* are the sets of directories a successful run may create, removes is what
\* a successful run removes
OrchEnvs(creates, removes) ==
    { EnvOf("completed", 0, "", 1, removes, mk) : mk \in creates }
    \cup { EnvOf("completed", 1, "stderr", 1, {}, {}),
           EnvOf("timeout", 0, "", 1, {}, {}),
           EnvOf("spawn_error", 0, "[Errno 12] Cannot allocate memory", 1, {}, {}) }

\* the framework ids given to the orchestrator: the registry and one unknown id
FrameworkInputs == FrameworkNames \cup {"svelte"}

Init ==
    /\ cwd = OrigDir
    /\ fs \in {{OrigDir}, {OrigDir, ProjDir}}
    /\ clock = 0
    /\ execution_history = <<>>
    /\ last_call = NoCall
    /\ pc = "dependency_check"
    /\ framework \in FrameworkInputs
    /\ github_token \in BOOLEAN
    /\ context = IdleContext
    /\ start_time = 0
    /\ outcome = "running"
    /\ exc_text = None
    /\ setup_idx = 0
    /\ upload_idx = 0
    /\ username = None
    /\ api_log = <<>>
    /\ phases = <<>>
    /\ os_type \in OsTypes
    /\ project_created = "unset"
    /\ github_created = "unset"
    /\ upload_done = "unset"
    /\ call_args = <<>>
    /\ call_result = <<>>
    /\ AgentIdle

\* the executor's part of the state after the call r
ExecutorAfter(command, working_dir, env, r) ==
    /\ cwd' = r.cwd
    /\ fs' = r.fs
    /\ clock' = r.clock
    /\ execution_history' = r.history
    /\ last_call' = CallObservation(command, working_dir, env, r)

\* execute_framework_setup_real ends: it returns the context or raises
Finish(res) ==
    /\ pc' = "done"
    /\ outcome' = res.outcome
    /\ context' = res.context
    /\ exc_text' = res.exc_text

\* FASE 1: check_framework_dependencies and the test on missing_deps
DependencyCheck ==
    /\ UNCHANGED <<callVars, agentVars>>
    /\ pc = "dependency_check"
    /\ phases' = Append(phases, "dependency_check")
    /\ \E envs \in [1..NumDeps(framework) -> DepEnvs] :
         LET verified == check_framework_dependencies(framework, envs, os_type)
             ctx == [context EXCEPT !.dependencies_verified = verified]
             missing_deps == SelectSeq(verified, IsMissingDep)
         IN  /\ clock' = clock + NumDeps(framework)
             /\ IF missing_deps # <<>>
                THEN Finish(ReturnWith(ctx, framework,
                                       MissingDepsResult(ctx, framework, missing_deps)))
                ELSE /\ pc' = "project_creation"
                     /\ context' = ctx
                     /\ UNCHANGED <<outcome, exc_text>>
    /\ UNCHANGED <<cwd, fs, execution_history, last_call, framework, github_token,
                   start_time, setup_idx, upload_idx, username, api_log, os_type,
                   project_created, github_created, upload_done>>

\* _execute_project_creation returned False: the outcome of lines 233-243
CreationFailed(ctx) ==
    /\ project_created' = "False"
    /\ Finish(ReturnWith(ctx, framework, CreationFailedResult(ctx, framework)))

\* FASE 2, entry of _execute_project_creation: the registry lookup and the
\* removal of an existing directory
RemoveExisting ==
    /\ UNCHANGED <<callVars, agentVars>>
    /\ pc = "project_creation"
    /\ phases' = Append(phases, "project_creation")
    /\ IF get_framework_info(framework) = <<>>
       THEN /\ CreationFailed(context)
            /\ UNCHANGED execVars
       ELSE IF PathExists(ProjDir, fs)
       THEN \E env \in OrchEnvs({{}}, {ProjDir}) :
              LET command == RemoveCommand(os_type)
                  r == ExecuteCommand(command, 300, None, env, cwd, fs, clock,
                                      execution_history)
              IN  /\ ExecutorAfter(command, None, env, r)
                  /\ IF r.raised
                     THEN /\ Finish(ExceptHandler(context, framework, r.exc))
                          /\ UNCHANGED project_created
                     ELSE IF ~r.result[1].success
                     THEN CreationFailed(context)
                     ELSE /\ pc' = "primary"
                          /\ UNCHANGED <<outcome, context, exc_text, project_created>>
       ELSE /\ pc' = "primary"
            /\ UNCHANGED <<outcome, context, exc_text, project_created>>
            /\ UNCHANGED execVars
    /\ UNCHANGED <<framework, github_token, start_time, setup_idx, upload_idx,
                   username, api_log, os_type, github_created, upload_done>>

\* the primary scaffold command and the check that the directory exists
PrimaryCommand ==
    /\ UNCHANGED <<callVars, agentVars>>
    /\ pc = "primary"
    /\ \E env \in OrchEnvs({{}, {ProjDir}}, {}) :
         LET framework_info == get_framework_info(framework)[1]
             command == Format(framework_info.primary_commands[1], ProjectName)
             r == ExecuteCommand(command, 600, None, env, cwd, fs, clock,
                                 execution_history)
         IN  /\ ExecutorAfter(command, None, env, r)
             /\ IF r.raised
                THEN /\ Finish(ExceptHandler(context, framework, r.exc))
                     /\ UNCHANGED <<project_created, setup_idx>>
                ELSE IF ScaffoldFailed(r.result[1], r.fs)
                THEN /\ CreationFailed(context)
                     /\ UNCHANGED setup_idx
                ELSE /\ context' = [context EXCEPT !.local_path = ProjDir]
                     /\ pc' = "setup"
                     /\ setup_idx' = 1
                     /\ UNCHANGED <<outcome, exc_text, project_created>>
    /\ UNCHANGED <<framework, github_token, start_time, upload_idx, username,
                   api_log, phases, os_type, github_created, upload_done>>

\* one iteration of the loop over framework_info["setup_commands"]
SetupCommand ==
    /\ UNCHANGED <<callVars, agentVars>>
    /\ pc = "setup"
    /\ LET setup_commands == get_framework_info(framework)[1].setup_commands
       IN  /\ setup_idx <= Len(setup_commands)
           /\ IF StartsWithCd(setup_commands[setup_idx])
              THEN /\ setup_idx' = setup_idx + 1
                   /\ UNCHANGED <<pc, outcome, context, exc_text, project_created>>
                   /\ UNCHANGED execVars
              ELSE \E env \in OrchEnvs({{}}, {}) :
                     LET command == Format(setup_commands[setup_idx], ProjectName)
                         working_dir == SetupWorkingDir(context.local_path)
                         r == ExecuteCommand(command, 300, working_dir, env, cwd, fs,
                                             clock, execution_history)
                     IN  /\ ExecutorAfter(command, working_dir, env, r)
                         /\ IF r.raised
                            THEN /\ Finish(ExceptHandler(context, framework, r.exc))
                                 /\ UNCHANGED <<setup_idx, project_created>>
                            ELSE /\ setup_idx' = IF SetupLoopStops(r.result[1])
                                                 THEN Len(setup_commands) + 1
                                                 ELSE setup_idx + 1
                                 /\ UNCHANGED <<pc, outcome, context, exc_text,
                                                project_created>>
    /\ UNCHANGED <<framework, github_token, start_time, upload_idx, username,
                   api_log, phases, os_type, github_created, upload_done>>

\* the loop is over: _execute_project_creation returns True, and the
\* orchestrator enters FASE 3 only when a token is configured
CreationSucceeded ==
    /\ UNCHANGED <<callVars, agentVars>>
    /\ pc = "setup"
    /\ setup_idx > Len(get_framework_info(framework)[1].setup_commands)
    /\ project_created' = "True"
    /\ pc' = IF github_token THEN "github_setup" ELSE "finalization"
    /\ UNCHANGED <<cwd, fs, clock, execution_history, last_call, framework,
                   github_token, context, start_time, outcome, exc_text, setup_idx,
                   upload_idx, username, api_log, phases, os_type, github_created,
                   upload_done>>

\* FASE 3: _execute_github_setup; response is what the hosting API answers
GithubSetup ==
    /\ UNCHANGED <<callVars, agentVars>>
    /\ pc = "github_setup"
    /\ phases' = Append(phases, "github_setup")
    /\ api_log' = Append(api_log, "POST /user/repos")
    /\ clock' = clock + 1
    /\ \E response \in {"201", "422", "exception"} :
         IF response = "201"
         THEN /\ context' = [context EXCEPT !.github_url = RepoUrl]
              /\ github_created' = "True"
              /\ pc' = "code_upload"
         ELSE /\ github_created' = "False"
              /\ pc' = "finalization"
              /\ UNCHANGED context
    /\ UNCHANGED <<cwd, fs, execution_history, last_call, framework, github_token,
                   start_time, outcome, exc_text, setup_idx, upload_idx, username,
                   os_type, project_created, upload_done>>

\* FASE 4, entry of _execute_code_upload: the guard and _get_github_username
CodeUploadStart ==
    /\ UNCHANGED <<callVars, agentVars>>
    /\ pc = "code_upload"
    /\ phases' = Append(phases, "code_upload")
    /\ IF context.local_path = None \/ context.github_url = None
       THEN /\ upload_done' = "False"
            /\ pc' = "finalization"
            /\ UNCHANGED <<username, api_log, upload_idx, clock>>
       ELSE /\ api_log' = Append(api_log, "GET /user")
            /\ clock' = clock + 1
            /\ \E login \in {"octocat", None} :
                 IF UsernameMissing(login)
                 THEN /\ upload_done' = "False"
                      /\ pc' = "finalization"
                      /\ UNCHANGED <<username, upload_idx>>
                 ELSE /\ username' = login
                      /\ upload_idx' = 1
                      /\ pc' = "git"
                      /\ UNCHANGED upload_done
    /\ UNCHANGED <<cwd, fs, execution_history, last_call, framework, github_token,
                   context, start_time, outcome, exc_text, setup_idx, os_type,
                   project_created, github_created>>

\* one iteration of the loop over the git commands
GitCommand ==
    /\ UNCHANGED <<callVars, agentVars>>
    /\ pc = "git"
    /\ \E env \in OrchEnvs({{}}, {}) :
         LET commands == UploadCommands(username)
             command == commands[upload_idx]
             r == ExecuteCommand(command, 120, context.local_path, env, cwd, fs,
                                 clock, execution_history)
         IN  /\ ExecutorAfter(command, context.local_path, env, r)
             /\ IF r.raised \/ UploadLoopStops(r.result[1])
                THEN /\ upload_done' = "False"
                     /\ pc' = "finalization"
                     /\ UNCHANGED upload_idx
                ELSE IF upload_idx = Len(commands)
                THEN /\ upload_done' = "True"
                     /\ pc' = "finalization"
                     /\ UNCHANGED upload_idx
                ELSE /\ upload_idx' = upload_idx + 1
                     /\ UNCHANGED <<pc, upload_done>>
    /\ UNCHANGED <<framework, github_token, context, start_time, outcome, exc_text,
                   setup_idx, username, api_log, phases, os_type, project_created,
                   github_created>>

\* FASE 5: success, total time and _generate_final_setup_result
Finalization ==
    /\ UNCHANGED <<callVars, agentVars>>
    /\ pc = "finalization"
    /\ phases' = Append(phases, "finalization")
    /\ LET ctx == [context EXCEPT !.success = TRUE,
                                  !.total_execution_time =
                                      TotalExecutionTime(clock, start_time)]
       IN  Finish(ReturnWith(ctx, framework, generate_final_setup_result(ctx, framework)))
    /\ UNCHANGED <<cwd, fs, clock, execution_history, last_call, framework,
                   github_token, start_time, setup_idx, upload_idx, username,
                   api_log, os_type, project_created, github_created, upload_done>>

Next ==
    \/ DependencyCheck
    \/ RemoveExisting
    \/ PrimaryCommand
    \/ SetupCommand
    \/ CreationSucceeded
    \/ GithubSetup
    \/ CodeUploadStart
    \/ GitCommand
    \/ Finalization

Spec == Init /\ [][Next]_vars

----------------------------------------------------------------------------
(* Properties of the command executor, checked under SpecExec *)

Called == last_call.called

Returned == Called /\ ~last_call.raised /\ last_call.result # <<>>

LastRecord == last_call.result[1]

\* C5: whenever a call of execute_command returns, whatever the path it took
\* (zero or non-zero exit, timeout, exception on spawn), the process working
\* directory equals the working directory observed just before the call.
C5_CwdRestoredOnReturn ==
    Returned => cwd = last_call.cwd_before

\* a returned call that did change directory, after a timeout and an
\* exception-raising command
C5_Witness ==
    /\ Returned
    /\ Len(execution_history) = 2
    /\ execution_history[1].exit_code = TimeoutExitCode
    /\ execution_history[2].exit_code = ExceptionExitCode
    /\ \E i \in 1..2 : execution_history[i].working_directory = OtherDir
    /\ cwd = OrigDir

\* C6: every call of execute_command returns an ExecutionResult record and
\* lets no exception escape to the caller.
C6_NeverRaises ==
    Called => (~last_call.raised /\ last_call.result # <<>>)

\* C7: success is true exactly when the process completed with exit code 0;
\* a timeout gives success false, exit code -1 and error "Timeout"; another
\* failure gives success false, the exception text as error, and an exit
\* code that is not the timeout sentinel.
C7_OutcomeMapping ==
    Returned =>
        /\ LastRecord.success <=> (last_call.path = "completed" /\ last_call.rc = 0)
        /\ last_call.path = "completed" => LastRecord.exit_code = last_call.rc
        /\ last_call.path = "timeout" =>
              /\ ~LastRecord.success
              /\ LastRecord.exit_code = -1
              /\ LastRecord.error = "Timeout"
        /\ last_call.path = "exception" =>
              /\ ~LastRecord.success
              /\ LastRecord.error = last_call.exc_str
              /\ LastRecord.exit_code # -1
              /\ LastRecord.exit_code \notin {0, 1}

\* a record of a call whose spawn raised, after a record of a timeout
C7_Witness ==
    /\ Returned
    /\ last_call.path = "exception"
    /\ last_call.working_dir = MissingDir
    /\ LastRecord.exit_code = -999
    /\ Len(execution_history) = 2
    /\ execution_history[1].error = "Timeout"

\* C8: every record has the command that was requested, an integer exit
\* code and an elapsed time >= 0, on every path.
C8_RecordShape ==
    /\ \A i \in 1..Len(execution_history) :
          /\ execution_history[i].command \in Commands
          /\ execution_history[i].exit_code \in Int
          /\ execution_history[i].execution_time \in Int
          /\ execution_history[i].execution_time >= 0
    /\ Returned =>
          /\ LastRecord.command = last_call.command
          /\ LastRecord = execution_history[Len(execution_history)]

\* records of a non-zero exit and of a timeout with a positive elapsed time
C8_Witness ==
    /\ Len(execution_history) = 2
    /\ execution_history[1].exit_code = 1
    /\ execution_history[1].execution_time > 0
    /\ execution_history[2].exit_code = TimeoutExitCode
    /\ execution_history[2].execution_time > 0
    /\ Returned

----------------------------------------------------------------------------
(* Properties of the orchestrator, checked under Spec *)

Done == pc = "done"

\* the caller received a context whose setup_result is populated
ReturnedOutcome == outcome = "returned" /\ context.setup_result # <<>>

\* the run ended in Failed: a structured outcome with succeeded = false
ReturnedFailed == ReturnedOutcome /\ ~context.setup_result[1].success

HasStatus(st) ==
    \E i \in 1..Len(context.dependencies_verified) :
        context.dependencies_verified[i].status = st

\* the primary scaffold command of the run's framework
PrimaryOf(f) == Format(get_framework_info(f)[1].primary_commands[1], ProjectName)

\* the post-scaffold commands of the framework without the 'cd ...' entries
RECURSIVE WithoutCd(_)
WithoutCd(cmds) ==
    IF cmds = <<>> THEN <<>>
    ELSE IF StartsWithCd(Head(cmds)) THEN WithoutCd(Tail(cmds))
    ELSE <<Format(Head(cmds), ProjectName)>> \o WithoutCd(Tail(cmds))

\* position of the primary scaffold command in the history of the run
PrimaryIndex ==
    IF execution_history # <<>> /\ execution_history[1].command = RemoveCommand(os_type)
    THEN 2 ELSE 1

PrimaryRan ==
    /\ get_framework_info(framework) # <<>>
    /\ Len(execution_history) >= PrimaryIndex
    /\ execution_history[PrimaryIndex].command = PrimaryOf(framework)

\* C1: when a dependency of a registry framework is Missing, the run ends in
\* the Failed outcome at DependencyCheck and no removal, scaffold,
\* post-scaffold, repository-creation or git command is executed.
C1_FailFastOnMissing ==
    (Done /\ framework \in FrameworkNames /\ HasStatus("missing")) =>
        /\ ReturnedFailed
        /\ phases = <<"dependency_check">>
        /\ execution_history = <<>>
        /\ api_log = <<>>

\* C2: when a dependency is Outdated the run ends in Failed with
\* succeeded = false and no command beyond the dependency checks is run.
C2_FailFastOnOutdated ==
    (Done /\ HasStatus("outdated")) =>
        /\ ReturnedFailed
        /\ phases = <<"dependency_check">>
        /\ execution_history = <<>>
        /\ api_log = <<>>

\* C3: execute_framework_setup_real never lets an exception escape: on every
\* path it returns a context whose setup_result is populated.
C3_NoExceptionEscapes ==
    Done => ReturnedOutcome

\* C4: when the scaffold succeeded, a token is configured and the repository
\* creation failed, the final succeeded flag is true, github_url is unset
\* and the CodeUpload phase is not entered.
C4_RemoteFailureNonFatal ==
    (Done /\ project_created = "True" /\ github_token /\ github_created = "False") =>
        /\ ReturnedOutcome
        /\ context.success
        /\ context.setup_result[1].success
        /\ context.github_url = None
        /\ \A i \in 1..Len(phases) : phases[i] # "code_upload"

\* C9: when the primary scaffold command fails the run ends in Failed with
\* succeeded = false and local_path unset, and nothing is executed after it.
C9_ScaffoldFailureFatal ==
    (Done /\ PrimaryRan /\ ~execution_history[PrimaryIndex].success) =>
        /\ ReturnedFailed
        /\ ~context.success
        /\ context.local_path = None
        /\ Len(execution_history) = PrimaryIndex
        /\ api_log = <<>>

\* number of post-scaffold commands the loop has gone past
SetupCommandsPassed ==
    LET setup_commands == get_framework_info(framework)[1].setup_commands
    IN  IF pc = "setup"
        THEN Cardinality({j \in 1..(setup_idx - 1) : ~StartsWithCd(setup_commands[j])})
        ELSE Len(WithoutCd(setup_commands))

\* C10: after a successful scaffold every post-scaffold command other than
\* the 'cd ...' entries is executed exactly once, in registry order, with the
\* project directory as working directory, whatever the outcome of the
\* earlier ones, and the scaffold phase reports success.
C10_PostScaffoldBestEffort ==
    context.local_path # None =>
        LET expected == WithoutCd(get_framework_info(framework)[1].setup_commands)
            k == PrimaryIndex
            n == SetupCommandsPassed
        IN  /\ project_created # "False"
            /\ pc # "setup" => project_created = "True"
            /\ Len(execution_history) >= k + n
            /\ pc = "setup" => Len(execution_history) = k + n
            /\ \A i \in 1..n :
                  /\ execution_history[k + i].command = expected[i]
                  /\ execution_history[k + i].working_directory = ProjDir
            /\ \A i \in 1..Len(execution_history) :
                  i > k + n => execution_history[i].command[1] = "git"

\* the scaffold phase reported success although the first of two
\* post-scaffold commands failed, and the second one was still executed
C10_Witness ==
    /\ project_created = "True"
    /\ framework = "django"
    /\ Len(execution_history) >= PrimaryIndex + 2
    /\ ~execution_history[PrimaryIndex + 1].success
    /\ execution_history[PrimaryIndex + 1].command = <<"python", "manage.py", "migrate">>
    /\ execution_history[PrimaryIndex + 2].command = <<"python", "manage.py", "runserver">>
    /\ execution_history[PrimaryIndex + 2].working_directory = ProjDir

----------------------------------------------------------------------------
(* The orchestrator's later phases *)

\* a command of the git sequence of _execute_code_upload is in the history
GitCommandRan ==
    \E i \in 1..Len(execution_history) : execution_history[i].command[1] = "git"

\* a command of the git sequence ran and failed
GitPushFailed ==
    \E i \in 1..Len(execution_history) :
        /\ execution_history[i].command[1] = "git"
        /\ ~execution_history[i].success

\* every dependency of the framework was found Available
AllAvailable ==
    \A i \in 1..Len(context.dependencies_verified) :
        context.dependencies_verified[i].status = "available"

\* C11: without a token no repository-creation request and no git command
\* is issued, and when the dependencies are Available and the scaffold
\* succeeded the run returns an outcome with succeeded = true and no
\* remote URL.
C11_NoTokenNoPublish ==
    (Done /\ ~github_token) =>
        /\ api_log = <<>>
        /\ ~GitCommandRan
        /\ (AllAvailable /\ project_created = "True") =>
              /\ ReturnedOutcome
              /\ context.success
              /\ context.setup_result[1].success
              /\ context.github_url = None

\* the request of the per-file upload through the hosting API
UploadFallbackRequest == "PUT /repos/{owner}/{repo}/contents/{path}"

\* C12: the per-file upload through the hosting API is attempted by the run
\* exactly when the git sequence of the CodeUpload phase failed.
C12_UploadFallback ==
    Done => ((\E i \in 1..Len(api_log) : api_log[i] = UploadFallbackRequest)
             <=> GitPushFailed)

\* C13: when the scaffold succeeded and the repository was created the
\* run returns succeeded = true with the remote URL set, however the
\* CodeUpload phase ended.
C13_UploadFailureKeepsSuccess ==
    (Done /\ project_created = "True" /\ github_created = "True") =>
        /\ ReturnedOutcome
        /\ context.success
        /\ context.setup_result[1].success
        /\ context.github_url = RepoUrl

\* C14: at the end of the run context.execution_log holds one record per
\* command the run attempted, in execution order, and the setup_commands of
\* the outcome are the commands of those records.
C14_ExecutionLogComplete ==
    Done =>
        /\ context.execution_log = execution_history
        /\ context.setup_result # <<>>
        /\ context.setup_result[1].setup_commands =
              [i \in 1..Len(execution_history) |-> execution_history[i].command]

\* the command that starts a project of the framework: the step the
\* orchestrator prints for react, vue and django, and the last
\* post-scaffold command of the registry for the other frameworks
StartStepOf(f) ==
    IF f = "react" THEN <<"2. Iniciar servidor: npm start">>
    ELSE IF f = "vue" THEN <<"2. Iniciar servidor: npm run dev">>
    ELSE IF f = "django" THEN <<"2. Iniciar servidor: python manage.py runserver">>
    ELSE LET setup_commands == get_framework_info(f)[1].setup_commands
         IN  setup_commands[Len(setup_commands)]

\* steps holds the 'cd' step followed by the start step of the framework
HasStartSteps(steps, f) ==
    \E i \in 1..Len(steps) : \E j \in 1..Len(steps) :
        /\ i < j
        /\ steps[i] = <<"1. Navegar al proyecto: cd", ProjectName>>
        /\ steps[j] = StartStepOf(f)

\* C19: for every framework of the registry a successful run returns an
\* outcome whose next steps hold the start command of the framework after
\* the 'cd' step.
C19_NextStepsTailored ==
    (Done /\ framework \in FrameworkNames /\ context.success) =>
        /\ HasStartSteps(NextSteps(context, framework), framework)
        /\ ReturnedOutcome
        /\ HasStartSteps(context.setup_result[1].next_steps, framework)

\* the position of a phase in the order of the run
PhaseRank(phase) ==
    CASE phase = "dependency_check" -> 1
      [] phase = "project_creation" -> 2
      [] phase = "github_setup" -> 3
      [] phase = "code_upload" -> 4
      [] phase = "finalization" -> 5

\* C20: the phases of a run are entered in the order DependencyCheck,
\* Scaffold, VcsPublish, CodeUpload, Done, each at most once, no command is
\* executed twice, and a run that has ended has ended in the Done or the
\* Failed outcome.
C20_TerminatesForward ==
    /\ \A i \in 1..Len(phases) : \A j \in 1..Len(phases) :
          i < j => PhaseRank(phases[i]) < PhaseRank(phases[j])
    /\ \A i \in 1..Len(execution_history) : \A j \in 1..Len(execution_history) :
          i < j => execution_history[i].command # execution_history[j].command
    /\ Done => ReturnedOutcome

----------------------------------------------------------------------------
(* The functions of the dependency checker called on their own *)

\* no execute_command call has been made
ExecutorIdle ==
    /\ cwd = OrigDir
    /\ fs = {OrigDir, OtherDir}
    /\ clock = 0
    /\ execution_history = <<>>
    /\ last_call = NoCall

\* no run of execute_framework_setup_real is in progress
OrchestratorIdle ==
    /\ pc = "idle"
    /\ framework = None
    /\ github_token = FALSE
    /\ context = IdleContext
    /\ start_time = 0
    /\ outcome = "idle"
    /\ exc_text = None
    /\ setup_idx = 0
    /\ upload_idx = 0
    /\ username = None
    /\ api_log = <<>>
    /\ phases = <<>>
    /\ os_type = "linux"
    /\ project_created = "unset"
    /\ github_created = "unset"
    /\ upload_done = "unset"

\* largest number of components of a version drawn
MaxParts == 3

\* the components versions are made of: one and two digits
VersionComponents == {0, 9, 10}

VersionParts == UNION {[1..n -> VersionComponents] : n \in 1..MaxParts}

\* the requirement is the version alone or the version after '>='
RequirementPrefixes == {<<>>, <<">", "=">>}

\* strings that are not dot-separated integers: '', 'v9' and '9..0'
MalformedVersions == {<<>>, <<"v", "9">>, <<"9", ".", ".", "0">>}

\* the arguments of a _compare_versions call; the parts are the numbers the
\* strings were written from, <<>> when a string is malformed
CompareArgs(current, required, current_parts, required_parts) ==
    [fn |-> "_compare_versions", current |-> current, required |-> required,
     current_parts |-> current_parts, required_parts |-> required_parts]

InitVersions ==
    /\ ExecutorIdle
    /\ OrchestratorIdle
    /\ call_result = <<>>
    /\ AgentIdle
    /\ \E r \in VersionParts, prefix \in RequirementPrefixes :
         \/ \E c \in VersionParts :
              call_args = CompareArgs(VersionString(c), prefix \o VersionString(r),
                                      c, r)
         \/ \E m \in MalformedVersions :
              call_args = CompareArgs(m, prefix \o VersionString(r), <<>>, r)

\* one call of _compare_versions
CompareVersionsCall ==
    /\ call_result = <<>>
    /\ call_args.fn = "_compare_versions"
    /\ call_result' = <<compare_versions(call_args.current, call_args.required)>>
    /\ UNCHANGED <<call_args, execVars, orchVars, agentVars>>

NextVersions == CompareVersionsCall

SpecVersions == InitVersions /\ [][NextVersions]_vars

\* the dependency descriptors of the registry
RegistryDependencies ==
    UNION {{FRAMEWORKS[f].dependencies[i] : i \in 1..Len(FRAMEWORKS[f].dependencies)} :
              f \in FrameworkNames}

\* a descriptor without the key "required_version"
Unversioned(dep) == [dep EXCEPT !.required_version = <<>>]

CheckDependencies ==
    RegistryDependencies \cup {Unversioned(dep) : dep \in RegistryDependencies}

\* platform.system().lower(): an OS of the install table or another one
CheckOsTypes == {"linux", "windows", "darwin", "freebsd"}

\* what a check command prints, with the version _extract_version is to
\* find in it (<<>>: none): '', 'none', 'v0.0.1', '99.0.0', '3.8',
\* 'Py 20.0.0', '1' and '10.9.0.1'
CheckOutputs ==
    {[stdout |-> <<>>, version |-> <<>>],
     [stdout |-> <<"n", "o", "n", "e">>, version |-> <<>>],
     [stdout |-> <<"v">> \o VersionString(<<0, 0, 1>>), version |-> <<0, 0, 1>>],
     [stdout |-> VersionString(<<99, 0, 0>>), version |-> <<99, 0, 0>>],
     [stdout |-> VersionString(<<3, 8>>), version |-> <<3, 8>>],
     [stdout |-> <<"P", "y", " ">> \o VersionString(<<20, 0, 0>>),
      version |-> <<20, 0, 0>>],
     [stdout |-> VersionString(<<1>>), version |-> <<>>],
     [stdout |-> VersionString(<<10, 9, 0, 1>>), version |-> <<10, 9, 0>>]}

\* what subprocess.run does with the check command
CheckEnvs ==
    {[kind |-> k, stdout |-> <<>>, version |-> <<>>] :
        k \in {"exception", "timeout", "nonzero"}}
    \cup {[kind |-> "zero", stdout |-> o.stdout, version |-> o.version] :
            o \in CheckOutputs}

InitDeps ==
    /\ ExecutorIdle
    /\ OrchestratorIdle
    /\ call_result = <<>>
    /\ AgentIdle
    /\ \E dep \in CheckDependencies, env \in CheckEnvs, os \in CheckOsTypes :
         call_args = [fn |-> "check_dependency", dependency_info |-> dep,
                      env |-> env, os_type |-> os]

\* one call of check_dependency
CheckDependencyCall ==
    /\ call_result = <<>>
    /\ call_args.fn = "check_dependency"
    /\ call_result' = <<check_dependency(call_args.dependency_info, call_args.env,
                                         call_args.os_type)>>
    /\ UNCHANGED <<call_args, execVars, orchVars, agentVars>>

NextDeps == CheckDependencyCall

SpecDeps == InitDeps /\ [][NextDeps]_vars

----------------------------------------------------------------------------
(* Claims on the dependency checker *)

\* component i of a version padded with zeros
Component(parts, i) == IF i <= Len(parts) THEN parts[i] ELSE 0

\* a >= b in the lexicographic order of the zero-padded component lists
PaddedGeq(a, b) ==
    LET n == IF Len(a) >= Len(b) THEN Len(a) ELSE Len(b)
    IN  \A i \in 1..n :
            (\A j \in 1..(i - 1) : Component(a, j) = Component(b, j))
                => Component(a, i) >= Component(b, i)

CompareReturned ==
    call_result # <<>> /\ call_args.fn = "_compare_versions"

\* C15: for versions written as dot-separated non-negative integers, the
\* required one optionally after '>=', _compare_versions returns true
\* exactly when the zero-padded component list of current is
\* lexicographically >= that of required; ("14.2.0", ">=14.0.0") and
\* ("14", ">=14.0.0") give true, ("13.9.0", ">=14.0.0") gives false.
C15_CompareVersions ==
    /\ (CompareReturned /\ call_args.current_parts # <<>>) =>
          (call_result[1] <=>
              PaddedGeq(call_args.current_parts, call_args.required_parts))
    /\ compare_versions(<<"1", "4", ".", "2", ".", "0">>,
                        <<">", "=", "1", "4", ".", "0", ".", "0">>)
    /\ ~compare_versions(<<"1", "3", ".", "9", ".", "0">>,
                         <<">", "=", "1", "4", ".", "0", ".", "0">>)
    /\ compare_versions(<<"1", "4">>, <<">", "=", "1", "4", ".", "0", ".", "0">>)

\* '10' was compared with '>=10.0.0' and found to satisfy it
C15_Witness ==
    /\ CompareReturned
    /\ call_args.current = <<"1", "0">>
    /\ call_args.required = <<">", "=", "1", "0", ".", "0", ".", "0">>
    /\ call_result[1]

CheckReturned ==
    call_result # <<>> /\ call_args.fn = "check_dependency"

\* the entry of the install table for the OS, None (<<>>) without one
ResolvedInstallCommand ==
    IF call_args.os_type \in {"windows", "linux", "darwin"}
    THEN call_args.dependency_info.install_commands[call_args.os_type]
    ELSE <<>>

\* C16: a check command that exits non-zero gives status Missing, one that
\* raises (timeout included) gives Unknown; both results carry the install
\* command of the running OS and neither is Available.
C16_CheckFailureClassified ==
    (CheckReturned /\ call_args.env.kind # "zero") =>
        /\ call_args.env.kind = "nonzero" => call_result[1].status = "missing"
        /\ call_args.env.kind \in {"exception", "timeout"} =>
              call_result[1].status = "unknown"
        /\ call_result[1].install_command = ResolvedInstallCommand
        /\ call_result[1].status # "available"

\* the check of node timed out on linux: Unknown with the linux install
\* command
C16_Witness ==
    /\ CheckReturned
    /\ call_args.env.kind = "timeout"
    /\ call_args.os_type = "linux"
    /\ call_result[1].status = "unknown"
    /\ call_result[1].install_command = <<"install", "node", "linux">>

\* C17: on exit code 0 the status is Available when no requirement is
\* declared or no version is found in the output, else Available exactly
\* when the version found is >= the requirement and Outdated otherwise;
\* it is never Missing or Unknown.
C17_ZeroExitClassified ==
    (CheckReturned /\ call_args.env.kind = "zero") =>
        LET found == call_args.env.version
            required == call_args.dependency_info.required_version
            required_parts ==
                [i \in 1..Len(Split(Remove(required, <<">", "=">>))) |->
                    int(Split(Remove(required, <<">", "=">>))[i])]
        IN  /\ call_result[1].current_version = VersionString(found)
            /\ call_result[1].status =
                  IF required = <<>> \/ found = <<>> THEN "available"
                  ELSE IF PaddedGeq(found, required_parts) THEN "available"
                  ELSE "outdated"
            /\ call_result[1].status \notin {"missing", "unknown"}

\* pip printed '3.8' against the requirement '>=20.0.0': Outdated
C17_Witness ==
    /\ CheckReturned
    /\ call_args.env.kind = "zero"
    /\ call_args.dependency_info.name = "pip"
    /\ call_args.dependency_info.required_version # <<>>
    /\ call_result[1].current_version = <<"3", ".", "8">>
    /\ call_result[1].status = "outdated"

----------------------------------------------------------------------------
(* The phase functions of the other variants that change the working
   directory: GitHubClient.push_project (src/src/github_client.py),
   GitHubRepoCreator.push_local_to_repo and
   HerbieFrameworkHelper.init_framework_project (src/herbie.py) *)

\* os.path.join(os.getcwd(), name) for the names given to the functions
JoinPath(dir, name) ==
    IF dir = OrigDir /\ name = "proj" THEN ProjDir
    ELSE IF dir = OrigDir /\ name = "file" THEN FilePath
    ELSE MissingDir

\* the directory os.chdir("..") leads to
ParentDir(dir) == IF dir = ProjDir THEN OrigDir ELSE "/"

\* the git sequence of push_project
PushProjectCommands ==
    << <<"git", "init">>, <<"git", "add", ".">>,
       <<"git", "commit", "-m", "Initial commit by Herbie Agent">>,
       <<"git", "branch", "-M", "main">>,
       <<"git", "remote", "add", "origin", "https://github.com/{username}/{repo_name}.git">>,
       <<"git", "push", "-u", "origin", "main">> >>

\* the git sequence of push_local_to_repo
PushLocalCommands ==
    << <<"git", "init">>,
       <<"git", "remote", "add", "origin", "https://{token}@github.com/{username}/{repo_name}.git">>,
       <<"git", "add", ".">>,
       <<"git", "commit", "-m", "Initial commit - Created by Herbie Agent">>,
       <<"git", "branch", "-M", "main">>,
       <<"git", "push", "-u", "origin", "main">> >>

\* How a sequence of n commands goes: fails_at = 0 when every command exits
\* 0, else the position of the first command that does not, and how it
\* fails: it exits non-zero, it times out, or subprocess.run raises.
SequenceEnvs(n, hows) ==
    {[fails_at |-> 0, how |-> "none"]} \cup
    {[fails_at |-> i, how |-> h] : i \in 1..n, h \in hows}

\* push_project: the cwd it leaves and the "success" of its result
push_project(project_path, env, dir0, disk0) ==
    LET original_dir == dir0
        target == JoinPath(dir0, project_path)
    IN  IF target \notin disk0
        THEN \* os.chdir raised: the except clause
             [success |-> FALSE, cwd |-> RestoreDir(original_dir, dir0)]
        ELSE IF env.fails_at = 0
        THEN [success |-> TRUE, cwd |-> RestoreDir(original_dir, target)]
        ELSE IF env.how = "nonzero"
        THEN \* the return inside the loop
             [success |-> FALSE, cwd |-> target]
        ELSE [success |-> FALSE, cwd |-> RestoreDir(original_dir, target)]

\* push_local_to_repo: subprocess.run(check=True) raises on a non-zero exit
push_local_to_repo(repo_name, env, dir0, disk0) ==
    LET original_dir == dir0
        target == JoinPath(dir0, repo_name)
    IN  IF ~PathExists(target, disk0)
        THEN [success |-> FALSE, cwd |-> dir0]
        ELSE IF target \notin disk0
        THEN \* os.chdir raised on a file
             [success |-> FALSE, cwd |-> RestoreDir(original_dir, dir0)]
        ELSE [success |-> env.fails_at = 0,
              cwd |-> RestoreDir(original_dir, target)]

\* init_framework_project: env.requirements is the answer of
\* check_framework_requirements, env.init the outcome of the init command,
\* env.creates whether it created the project directory, env.setup how the
\* additional commands go
init_framework_project(repo_name, additional_setup, env, dir0, disk0) ==
    LET target == JoinPath(dir0, repo_name)
        disk1 == IF env.creates /\ target = ProjDir
                 THEN disk0 \cup {target} ELSE disk0
    IN  IF ~env.requirements
        THEN [success |-> FALSE, cwd |-> dir0, fs |-> disk0]
        ELSE IF env.init # "ok"
        THEN [success |-> FALSE, cwd |-> dir0, fs |-> disk0]
        ELSE IF additional_setup = <<>>
        THEN [success |-> TRUE, cwd |-> dir0, fs |-> disk1]
        ELSE IF target \notin disk1
        THEN \* os.chdir(repo_name) raised
             [success |-> FALSE, cwd |-> dir0, fs |-> disk1]
        ELSE IF env.setup.fails_at \in 1..Len(additional_setup)
        THEN \* an except clause returns, the cwd is the project directory
             [success |-> FALSE, cwd |-> target, fs |-> disk1]
        ELSE [success |-> TRUE, cwd |-> ParentDir(target), fs |-> disk1]

\* names given as project_path / repo_name
PhaseNames == {"proj", "file", "ghost"}

\* project_info.additional_setup: None, one command or two
AdditionalSetups ==
    {<<>>, << <<"npm", "install">> >>,
     << <<"npm", "install">>, <<"npm", "run", "build">> >>}

InitEnvs ==
    {[requirements |-> q, init |-> i, creates |-> c, setup |-> e] :
        q \in BOOLEAN, i \in {"ok", "nonzero", "timeout", "exception"},
        c \in BOOLEAN, e \in SequenceEnvs(2, {"nonzero", "exception"})}

InitPhases ==
    /\ cwd \in {OrigDir, OtherDir}
    /\ fs \in {{OrigDir, OtherDir}, {OrigDir, OtherDir, ProjDir}}
    /\ clock = 0
    /\ execution_history = <<>>
    /\ last_call = NoCall
    /\ OrchestratorIdle
    /\ call_result = <<>>
    /\ AgentIdle
    /\ \E name \in PhaseNames :
         \/ \E env \in SequenceEnvs(Len(PushProjectCommands),
                                    {"nonzero", "timeout", "exception"}) :
              call_args = [fn |-> "push_project", name |-> name, env |-> env,
                           cwd |-> cwd]
         \/ \E env \in SequenceEnvs(Len(PushLocalCommands),
                                    {"nonzero", "timeout", "exception"}) :
              call_args = [fn |-> "push_local_to_repo", name |-> name,
                           env |-> env, cwd |-> cwd]
         \/ \E env \in InitEnvs, additional_setup \in AdditionalSetups :
              call_args = [fn |-> "init_framework_project", name |-> name,
                           env |-> env, cwd |-> cwd,
                           additional_setup |-> additional_setup]

PushProjectCall ==
    /\ call_result = <<>>
    /\ call_args.fn = "push_project"
    /\ LET r == push_project(call_args.name, call_args.env, cwd, fs)
       IN  /\ cwd' = r.cwd
           /\ call_result' = <<r.success>>
    /\ UNCHANGED <<fs, clock, execution_history, last_call, call_args, orchVars,
                   agentVars>>

PushLocalToRepoCall ==
    /\ call_result = <<>>
    /\ call_args.fn = "push_local_to_repo"
    /\ LET r == push_local_to_repo(call_args.name, call_args.env, cwd, fs)
       IN  /\ cwd' = r.cwd
           /\ call_result' = <<r.success>>
    /\ UNCHANGED <<fs, clock, execution_history, last_call, call_args, orchVars,
                   agentVars>>

InitFrameworkProjectCall ==
    /\ call_result = <<>>
    /\ call_args.fn = "init_framework_project"
    /\ LET r == init_framework_project(call_args.name, call_args.additional_setup,
                                       call_args.env, cwd, fs)
       IN  /\ cwd' = r.cwd
           /\ fs' = r.fs
           /\ call_result' = <<r.success>>
    /\ UNCHANGED <<clock, execution_history, last_call, call_args, orchVars,
                   agentVars>>

NextPhases ==
    \/ PushProjectCall
    \/ PushLocalToRepoCall
    \/ InitFrameworkProjectCall

SpecPhases == InitPhases /\ [][NextPhases]_vars

\* C18: when push_project, push_local_to_repo or init_framework_project
\* returns, with success, after a failing or timed-out command or after an
\* exception, the working directory is the one it was called in.
C18_PhasesRestoreCwd ==
    (call_result # <<>> /\
     call_args.fn \in {"push_project", "push_local_to_repo",
                       "init_framework_project"}) =>
        cwd = call_args.cwd

----------------------------------------------------------------------------
(* Claims on the scaffold and upload phases of the orchestrator *)

\* C21: when the scaffold command reported success and the project
\* directory does not exist afterwards, local_path stays unset, no
\* post-scaffold command runs and the run ends in the Failed outcome.
C21_ScaffoldVerified ==
    (Done /\ PrimaryRan /\ execution_history[PrimaryIndex].success
          /\ ~PathExists(ProjDir, fs)) =>
        /\ context.local_path = None
        /\ Len(execution_history) = PrimaryIndex
        /\ ReturnedFailed

\* the step of the run that leaves the entry of the scaffold phase
LeavesProjectCreation ==
    pc = "project_creation" /\ pc' # "project_creation"

\* C22: on entering the scaffold phase of a registry framework, an existing
\* project directory makes the run execute the removal command first; the
\* run goes on to the scaffold command only when the removal succeeded and
\* ends in the Failed outcome when it did not; without an existing
\* directory no removal command is executed.
C22_RemovalBeforeScaffold ==
    [][(LeavesProjectCreation /\ framework \in FrameworkNames) =>
          IF PathExists(ProjDir, fs)
          THEN /\ Len(execution_history') = Len(execution_history) + 1
               /\ LET removal == execution_history'[Len(execution_history')]
                  IN  /\ removal.command = RemoveCommand(os_type)
                      /\ removal.success => pc' = "primary"
                      /\ ~removal.success =>
                            /\ pc' = "done"
                            /\ outcome' = "returned"
                            /\ context'.setup_result # <<>>
                            /\ ~context'.setup_result[1].success
          ELSE /\ execution_history' = execution_history
               /\ pc' = "primary"]_vars

\* C23: a git command of the upload is executed only in a run whose
\* scaffold succeeded (local_path set) and whose repository creation
\* succeeded (github_url set), and never when the username was not
\* obtained.
C23_UploadOnlyAfterPublish ==
    GitCommandRan =>
        /\ project_created = "True"
        /\ context.local_path # None
        /\ github_created = "True"
        /\ context.github_url # None
        /\ \E i \in 1..Len(api_log) : api_log[i] = "POST /user/repos"
        /\ username # None

\* a run with a created repository and an obtained username executed git
\* commands
C23_Witness ==
    /\ Done
    /\ GitCommandRan
    /\ context.github_url = RepoUrl
    /\ username = "octocat"

\* the record of a git command
IsGitRecord(record) == record.command[1] = "git"

\* the records of the git commands of the run, in execution order
GitRecords == SelectSeq(execution_history, IsGitRecord)

\* C24: the git commands run in the order init, user.name, user.email,
\* remote add, add, commit, branch, push, each in the project directory; a
\* command runs only when every earlier one succeeded, and the phase
\* reports success only when all of them succeeded.
C24_UploadOrderedStopsAtFailure ==
    LET commands == UploadCommands(username)
    IN  /\ Len(GitRecords) <= Len(commands)
        /\ \A i \in 1..Len(GitRecords) :
              /\ GitRecords[i].command = commands[i]
              /\ GitRecords[i].working_directory = ProjDir
              /\ i < Len(GitRecords) => GitRecords[i].success
        /\ GitRecords # <<>> => GitRecords[1].command = <<"git", "init">>
        /\ Len(GitRecords) = Len(commands) =>
              GitRecords[Len(commands)].command = <<"git", "push", "-u", "origin", "main">>
        /\ upload_done = "True" =>
              /\ Len(GitRecords) = Len(commands)
              /\ \A i \in 1..Len(GitRecords) : GitRecords[i].success
        /\ (pc # "git" /\ GitRecords # <<>> /\ GitRecords[Len(GitRecords)].success) =>
              Len(GitRecords) = Len(commands)

\* the third git command failed: nothing ran after it and the phase
\* reported failure
C24_Witness ==
    /\ Done
    /\ Len(GitRecords) = 3
    /\ GitRecords[1].success /\ GitRecords[2].success
    /\ ~GitRecords[3].success
    /\ upload_done = "False"

\* C27: context.success is false until the finalization phase; local_path
\* is set only after the scaffold command succeeded and the directory was
\* seen to exist; github_url is set only after the repository was created;
\* success implies local_path set, github_url set implies local_path set.
C27_ContextDiscipline ==
    /\ context.success =>
          /\ \E i \in 1..Len(phases) : phases[i] = "finalization"
          /\ context.local_path # None
    /\ context.local_path # None =>
          /\ PrimaryRan
          /\ execution_history[PrimaryIndex].success
          /\ PathExists(ProjDir, fs)
          /\ context.local_path = ProjDir
    /\ context.github_url # None =>
          /\ github_created = "True"
          /\ \E i \in 1..Len(api_log) : api_log[i] = "POST /user/repos"
          /\ context.local_path # None

\* a run went through finalization with the repository created
C27_Witness ==
    /\ context.success
    /\ context.local_path = ProjDir
    /\ context.github_url = RepoUrl

\* every dependency of the framework is Available or Unknown
AllAvailableOrUnknown ==
    /\ context.dependencies_verified # <<>>
    /\ \A i \in 1..Len(context.dependencies_verified) :
          context.dependencies_verified[i].status \in {"available", "unknown"}

\* the removal of an existing project directory failed
RemovalFailed ==
    /\ Len(execution_history) = 1
    /\ execution_history[1].command = RemoveCommand(os_type)
    /\ ~execution_history[1].success

C29_UnknownFramework ==
    (Done /\ framework \notin FrameworkNames) =>
        /\ context.dependencies_verified = <<>>
        /\ phases = <<"dependency_check", "project_creation">>
        /\ execution_history = <<>>
        /\ api_log = <<>>
        /\ ~context.success
        /\ ReturnedFailed

----------------------------------------------------------------------------
(* Claims on the aggregates *)

IsSuccessRecord(record) == record.success

\* the sum of the elapsed times of the records of h, from the last one
RECURSIVE ElapsedSum(_)
ElapsedSum(h) ==
    IF h = <<>> THEN 0
    ELSE ElapsedSum(SubSeq(h, 1, Len(h) - 1)) + h[Len(h)].execution_time

\* the summary agrees with the records of the history
SummaryMatchesHistory ==
    LET summary == get_execution_summary(execution_history)
    IN  /\ summary.total_commands = Len(execution_history)
        /\ summary.successful_commands =
              Len(SelectSeq(execution_history, IsSuccessRecord))
        /\ summary.failed_commands =
              summary.total_commands - summary.successful_commands
        /\ summary.total_execution_time = ElapsedSum(execution_history)
        /\ execution_history = <<>> =>
              /\ summary.success_rate = <<0, 1>>
              /\ summary.average_command_time = <<0, 1>>

\* C25: after any sequence of execute_command calls the summary counts one
\* command per call made, its successful and failed counts and its total
\* time agree with the records, and on an empty history the two rates are 0.
C25_SummaryConsistent ==
    /\ []SummaryMatchesHistory
    /\ [][get_execution_summary(execution_history').total_commands =
             get_execution_summary(execution_history).total_commands + 1]_vars

\* the run went through the finalization phase
Finalized == \E i \in 1..Len(phases) : phases[i] = "finalization"

\* C26, as stated: when a run reaches the finalization, the
\* total_execution_time of its context equals the sum of the elapsed times
\* of the command records of the run.
C26_TotalFromRecords ==
    (Done /\ Finalized) =>
        context.total_execution_time = ElapsedSum(execution_history)

\* C26, amended: when a run reaches the finalization, the
\* total_execution_time of its context is the time elapsed since the start
\* of execute_framework_setup_real, which is at least the sum of the
\* elapsed times of the command records of the run.
C26_TotalIsWallClock ==
    Finalized =>
        /\ context.total_execution_time = clock - start_time
        /\ context.total_execution_time >= ElapsedSum(execution_history)

\* a finalized run whose total time exceeds the time of its commands
C26_Witness ==
    /\ Finalized
    /\ execution_history # <<>>
    /\ context.total_execution_time > ElapsedSum(execution_history)

----------------------------------------------------------------------------
(* HerbieAgent (src/herbie.py): the conversation loop of main(), one action
   per turn of chat(), and the pending project *)

\* number of projects the user asks for
MaxProjects == 2

\* frameworks of FrameworkDatabase.get_framework_names() used here
AgentFrameworks == {"react", "vue"}

\* values the user asks a framework to be changed to
RequestedFrameworks == AgentFrameworks \cup {"cobol"}

\* the repo_name of every pending project
AgentRepoName == "proj"

\* outcomes of requests.post in create_repository other than 201
RepositoryFailures == {"422", "exception"}

\* environments of init_framework_project met in a conversation
AgentInitEnvs ==
    {env \in InitEnvs :
        env.init \in {"ok", "nonzero"} /\ env.setup.how \in {"none", "nonzero"}}

\* environments of push_local_to_repo met in a conversation
AgentPushEnvs == SequenceEnvs(Len(PushLocalCommands), {"nonzero"})

\* the answer of a handler
Response(handler, intent) == [handler |-> handler, intent |-> intent]

\* main() left its loop on a KeyboardInterrupt
Interrupted == last_response.intent = "interrupted"

\* what _execute_project_creation leaves in pending_project when it skips
\* the reset
PendingAfterCreationKept(pending) == pending

\* self.pending_project = None before the final response is returned
PendingAfterCreation(pending) == <<>>

\* create_repository: the one POST /user/repos, for the pending project
RepositoryRequested(pending, requests) == Append(requests, pending[1].id)

\* _execute_project_creation with a pending project
ExecuteProjectCreation ==
    LET handler == "_execute_project_creation" IN
    \/ \* an exception before create_repository: the except clause
       /\ pending_project' = <<>>
       /\ last_response' = Response(handler, "unexpected_error")
       /\ UNCHANGED <<repo_requests, cwd, fs>>
    \/ \* create_repository returned None
       /\ \E failure \in RepositoryFailures : TRUE
       /\ repo_requests' = RepositoryRequested(pending_project, repo_requests)
       /\ pending_project' = <<>>
       /\ last_response' = Response(handler, "github_repo_creation_failed")
       /\ UNCHANGED <<cwd, fs>>
    \/ \* the repository was created
       /\ repo_requests' = RepositoryRequested(pending_project, repo_requests)
       /\ \/ \* an exception in the question, input() or the analysis
             /\ pending_project' = <<>>
             /\ last_response' = Response(handler, "unexpected_error")
             /\ UNCHANGED <<cwd, fs>>
          \/ \* KeyboardInterrupt in input(): main() ends
             /\ last_response' = Response("main", "interrupted")
             /\ UNCHANGED <<pending_project, cwd, fs>>
          \/ \* the user does not want the local project
             /\ pending_project' = PendingAfterCreation(pending_project)
             /\ last_response' =
                    Response(handler, "project_creation_success_repo_only")
             /\ UNCHANGED <<cwd, fs>>
          \/ \* the user wants the local project
             \E env \in AgentInitEnvs, additional_setup \in AdditionalSetups :
               LET framework_result ==
                       init_framework_project(AgentRepoName, additional_setup,
                                              env, cwd, fs)
               IN  IF ~framework_result.success
                   THEN /\ pending_project' =
                               PendingAfterCreation(pending_project)
                        /\ last_response' =
                               Response(handler, "framework_setup_failed")
                        /\ cwd' = framework_result.cwd
                        /\ fs' = framework_result.fs
                   ELSE \E push \in AgentPushEnvs, alternative \in BOOLEAN :
                          LET upload ==
                                  push_local_to_repo(AgentRepoName, push,
                                                     framework_result.cwd,
                                                     framework_result.fs)
                              upload_success == upload.success \/ alternative
                          IN  /\ pending_project' =
                                     PendingAfterCreation(pending_project)
                              /\ last_response' = Response(handler,
                                     IF upload_success
                                     THEN "project_creation_success_with_local"
                                     ELSE "project_creation_partial_success_with_local")
                              /\ cwd' = upload.cwd
                              /\ fs' = framework_result.fs

\* chat() caught an exception of a handler
ChatError ==
    /\ last_response' = Response("chat", "error")
    /\ UNCHANGED <<pending_project, projects_made, repo_requests, cwd, fs>>

\* chat() routed to _handle_project_creation
HandleProjectCreation ==
    /\ ~Interrupted
    /\ projects_made < MaxProjects
    /\ \/ ChatError
       \/ \E parsed \in AgentFrameworks :
            /\ pending_project' =
                   <<[id |-> projects_made + 1, framework |-> parsed]>>
            /\ projects_made' = projects_made + 1
            /\ last_response' =
                   Response("_handle_project_creation", "project_summary")
            /\ UNCHANGED <<repo_requests, cwd, fs>>
    /\ UNCHANGED <<clock, execution_history, last_call, orchVars, callVars>>

\* chat() routed to _handle_project_confirmation
HandleProjectConfirmation ==
    /\ ~Interrupted
    /\ Len(repo_requests) <= MaxProjects
    /\ IF pending_project = <<>>
       THEN /\ last_response' = Response("_handle_project_confirmation",
                                         "no_pending_project")
            /\ UNCHANGED <<pending_project, repo_requests, cwd, fs>>
       ELSE ExecuteProjectCreation
    /\ UNCHANGED <<projects_made, clock, execution_history, last_call,
                   orchVars, callVars>>

\* chat() routed to _handle_project_modification
HandleProjectModification ==
    /\ ~Interrupted
    /\ IF pending_project = <<>>
       THEN /\ last_response' = Response("_handle_project_modification",
                                         "no_pending_project")
            /\ UNCHANGED pending_project
       ELSE \/ \E new_value \in RequestedFrameworks :
                 IF new_value \in AgentFrameworks
                 THEN /\ pending_project' =
                            <<[pending_project[1] EXCEPT !.framework = new_value]>>
                      /\ last_response' = Response("_handle_project_modification",
                                                   "project_summary")
                 ELSE /\ last_response' = Response("_handle_project_modification",
                                                   "invalid_framework")
                      /\ UNCHANGED pending_project
            \/ /\ last_response' = Response("_handle_project_modification",
                                            "need_clarification")
               /\ UNCHANGED pending_project
            \/ /\ last_response' = Response("chat", "error")
               /\ UNCHANGED pending_project
    /\ UNCHANGED <<projects_made, repo_requests, cwd, fs, clock,
                   execution_history, last_call, orchVars, callVars>>

\* chat() routed to _handle_project_cancellation
HandleProjectCancellation ==
    /\ ~Interrupted
    /\ pending_project' = <<>>
    /\ last_response' \in {Response("_handle_project_cancellation",
                                    "project_cancelled"),
                           Response("chat", "error")}
    /\ UNCHANGED <<projects_made, repo_requests, cwd, fs, clock,
                   execution_history, last_call, orchVars, callVars>>

\* chat() routed to _handle_general_conversation
HandleGeneralConversation ==
    /\ ~Interrupted
    /\ last_response' \in {Response("_handle_general_conversation", "general"),
                           Response("chat", "error")}
    /\ UNCHANGED <<pending_project, projects_made, repo_requests, cwd, fs,
                   clock, execution_history, last_call, orchVars, callVars>>

InitAgent ==
    /\ ExecutorIdle
    /\ OrchestratorIdle
    /\ call_args = <<>>
    /\ call_result = <<>>
    /\ AgentIdle

NextAgent ==
    \/ HandleProjectCreation
    \/ HandleProjectConfirmation
    \/ HandleProjectModification
    \/ HandleProjectCancellation
    \/ HandleGeneralConversation

SpecAgent == InitAgent /\ [][NextAgent]_vars

\* the number of repository creation requests made for project id
RequestsFor(id) ==
    Cardinality({i \in 1..Len(repo_requests) : repo_requests[i] = id})

\* the last turn ran _execute_project_creation to its return
CreationReturned == last_response.handler = "_execute_project_creation"

\* C30: a turn of HerbieAgent.chat() with no pending project makes no
\* repository creation request; when _execute_project_creation has returned,
\* on whichever path, pending_project is None; and no pending project has
\* more than one repository creation request made for it.
C30_PendingLifecycle ==
    /\ [](CreationReturned => pending_project = <<>>)
    /\ [](\A id \in 1..MaxProjects : RequestsFor(id) <= 1)
    /\ [][pending_project = <<>> => repo_requests' = repo_requests]_vars

\* the only project was confirmed and its repository requested once; nothing
\* is pending and a later confirmation was answered with no_pending_project
C30_Witness ==
    /\ last_response = Response("_handle_project_confirmation",
                                "no_pending_project")
    /\ pending_project = <<>>
    /\ projects_made = 1
    /\ repo_requests = <<1>>

====
